---- MODULE Spec2Model ----
(***************************************************************************)
(* Animated table of contents: tree flattener, path geometry engine,       *)
(* active-section tracker and click cooldown of the scroll-sync animator.  *)
(*                                                                         *)
(* Numbers.  A JavaScript number v is represented by the integer v * Scale *)
(* (fixed point, Scale units per pixel).  Sums and differences are exact;  *)
(* Math.sqrt and "/" round down to 1/Scale, as a double rounds to its own  *)
(* resolution.  Ids are Dewey paths (<<2, 1>> is the first child of the    *)
(* second root); the empty path stands for the empty string "".           *)
(***************************************************************************)
EXTENDS Integers, Sequences, FiniteSets, TLC

VARIABLES items, flatItems, pathData, query, point, pc,
          layout, scrollY, scrollPending, reported, activeId,
          currentLength, isClickScrolling, timers, lastOp,
          smoothLength, dashOffset, request, ignored,
          determined, mounted, observers, listeners

gvars == <<items, flatItems, pathData, query, point, pc>>

uvars == <<layout, scrollY, scrollPending, reported, activeId,
           currentLength, isClickScrolling, timers, lastOp>>

\* the animator: the drawn length, the stroke offset derived from it, and
\* two records of what the activeIndex effect did: the row of the latest
\* request it (or a click) applied, and whether it skipped the latest change
avars == <<smoothLength, dashOffset, request, ignored>>

\* the tracker's effect: whether setActiveId was ever called, whether the
\* hook is mounted, and the live observers and scroll listeners
tvars == <<determined, mounted, observers, listeners>>

vars == <<gvars, uvars, avars, tvars>>

\* ------------------------------------------------------------------ bounds
MaxNodes == 5
Scale == 10
ScrollStep == 50
TickMs == 500
MaxTimers == 2
SpringStep == 16

\* ------------------------------------------------------- program constants
ITEM_HEIGHT == 32
INDENT_STEP == 12
PADDING == 8
COOLDOWN_MS == 1000
ROOT_MARGIN_TOP == 10
ROOT_MARGIN_BOTTOM == 80
BOTTOM_THRESHOLD == 50

\* ------------------------------------------------------------- arithmetic
Fx(n) == n * Scale

Mul(a, b) == (a * b) \div Scale

Div(a, b) == (a * Scale) \div b

RECURSIVE SqrtSearch(_, _, _)
SqrtSearch(v, lo, hi) ==
    IF lo >= hi THEN lo
    ELSE LET mid == (lo + hi + 1) \div 2
         IN  IF mid * mid <= v THEN SqrtSearch(v, mid, hi)
             ELSE SqrtSearch(v, lo, mid - 1)

Sqrt(a) == SqrtSearch(a * Scale, 0, a + Scale)

\* ------------------------------------------------------------ the inputs
RECURSIVE ForestsAt(_, _, _)
RECURSIVE NodesAt(_, _)
\* every forest of exactly n nodes whose roots are prefix.k, prefix.(k+1), ..
ForestsAt(n, prefix, k) ==
    IF n = 0 THEN {<< >>}
    ELSE UNION { { <<node>> \o rest :
                     node \in NodesAt(c, Append(prefix, k)),
                     rest \in ForestsAt(n - 1 - c, prefix, k + 1) } :
                 c \in 0..(n - 1) }

\* every node with this id and exactly c descendants; a leaf has either no
\* children field or an empty one
NodesAt(c, id) ==
    IF c = 0
    THEN { [id |-> id, title |-> id],
           [id |-> id, title |-> id, children |-> << >>] }
    ELSE { [id |-> id, title |-> id, children |-> ch] :
             ch \in ForestsAt(c, id, 1) }

Trees == UNION { ForestsAt(n, << >>, 1) : n \in 0..MaxNodes }

\* ---------------------------------------------------------- the flattener
\* flattenItems with a node's children emitted after its siblings
RECURSIVE flattenItems_SiblingsFirst(_, _)
flattenItems_SiblingsFirst(its, level) ==
    IF its = << >> THEN << >>
    ELSE LET item == Head(its)
         IN  <<[id |-> item.id, title |-> item.title, level |-> level]>>
             \o flattenItems_SiblingsFirst(Tail(its), level)
             \o (IF "children" \in DOMAIN item
                 THEN flattenItems_SiblingsFirst(item.children, level + 1)
                 ELSE << >>)

RECURSIVE flattenItems(_, _)
flattenItems(its, level) ==
    IF its = << >> THEN << >>
    ELSE LET item == Head(its)
         IN  <<[id |-> item.id, title |-> item.title, level |-> level]>>
             \o (IF "children" \in DOMAIN item
                 THEN flattenItems(item.children, level + 1)
                 ELSE << >>)
             \o flattenItems(Tail(its), level)

\* Math.min(...flatItems.map((item) => item.level)); Infinity for no items
Min(S) == CHOOSE m \in S : \A e \in S : m <= e

minLevelOf(flat) ==
    IF flat = << >> THEN "Infinity"
    ELSE Min({ flat[i].level : i \in 1..Len(flat) })

\* ------------------------------------------------------ the path geometry
\* generatePathStep adding |dx| + dy instead of the Euclidean length
generatePathStep_Manhattan(its, minLevel, i, acc) ==
    LET indent == Fx((its[i + 1].level - minLevel) * INDENT_STEP)
        x      == Fx(1) + indent
        top    == Fx(i * ITEM_HEIGHT + PADDING)
        bottom == Fx((i + 1) * ITEM_HEIGHT - PADDING)
        center == Div(top + bottom, Fx(2))
        dx     == x - acc.prevX
        dy     == top - acc.prevY
        length1 == IF i = 0 THEN acc.length
                   ELSE acc.length + (IF dx < 0 THEN 0 - dx ELSE dx) + dy
        seg1   == IF i = 0 THEN <<"M", x, top>> ELSE <<"L", x, top>>
        toCenter == center - top
        toBottom == bottom - top
        length2 == length1 + toBottom
    IN  [ segments    |-> acc.segments \o << seg1, <<"L", x, bottom>> >>,
          points      |-> acc.points \o
                            << [x |-> x, y |-> top, length |-> length1],
                               [x |-> x, y |-> center,
                                length |-> length1 + toCenter],
                               [x |-> x, y |-> bottom, length |-> length2] >>,
          itemLengths |-> Append(acc.itemLengths, length1 + toCenter),
          length      |-> length2,
          prevX       |-> x,
          prevY       |-> bottom ]

\* generatePathStep remembering the item's top, not its bottom, as prevY
generatePathStep_PrevYTop(its, minLevel, i, acc) ==
    LET indent == Fx((its[i + 1].level - minLevel) * INDENT_STEP)
        x      == Fx(1) + indent
        top    == Fx(i * ITEM_HEIGHT + PADDING)
        bottom == Fx((i + 1) * ITEM_HEIGHT - PADDING)
        center == Div(top + bottom, Fx(2))
        dx     == x - acc.prevX
        dy     == top - acc.prevY
        length1 == IF i = 0 THEN acc.length
                   ELSE acc.length + Sqrt(Mul(dx, dx) + Mul(dy, dy))
        seg1   == IF i = 0 THEN <<"M", x, top>> ELSE <<"L", x, top>>
        toCenter == center - top
        toBottom == bottom - top
        length2 == length1 + toBottom
    IN  [ segments    |-> acc.segments \o << seg1, <<"L", x, bottom>> >>,
          points      |-> acc.points \o
                            << [x |-> x, y |-> top, length |-> length1],
                               [x |-> x, y |-> center,
                                length |-> length1 + toCenter],
                               [x |-> x, y |-> bottom, length |-> length2] >>,
          itemLengths |-> Append(acc.itemLengths, length1 + toCenter),
          length      |-> length2,
          prevX       |-> x,
          prevY       |-> top ]

\* one iteration of the loop of generatePath, for the 0-based index i
generatePathStep(its, minLevel, i, acc) ==
    LET indent == Fx((its[i + 1].level - minLevel) * INDENT_STEP)
        x      == Fx(1) + indent
        top    == Fx(i * ITEM_HEIGHT + PADDING)
        bottom == Fx((i + 1) * ITEM_HEIGHT - PADDING)
        center == Div(top + bottom, Fx(2))
        dx     == x - acc.prevX
        dy     == top - acc.prevY
        length1 == IF i = 0 THEN acc.length
                   ELSE acc.length + Sqrt(Mul(dx, dx) + Mul(dy, dy))
        seg1   == IF i = 0 THEN <<"M", x, top>> ELSE <<"L", x, top>>
        toCenter == center - top
        toBottom == bottom - top
        length2 == length1 + toBottom
    IN  [ segments    |-> acc.segments \o << seg1, <<"L", x, bottom>> >>,
          points      |-> acc.points \o
                            << [x |-> x, y |-> top, length |-> length1],
                               [x |-> x, y |-> center,
                                length |-> length1 + toCenter],
                               [x |-> x, y |-> bottom, length |-> length2] >>,
          itemLengths |-> Append(acc.itemLengths, length1 + toCenter),
          length      |-> length2,
          prevX       |-> x,
          prevY       |-> bottom ]

RECURSIVE generatePathLoop(_, _, _, _)
generatePathLoop(its, minLevel, i, acc) ==
    IF i < Len(its)
    THEN generatePathLoop(its, minLevel, i + 1,
                          generatePathStep(its, minLevel, i, acc))
    ELSE acc

\* generatePath returning the last anchor length as the total length
generatePath_TotalAtLastAnchor(its, minLevel) ==
    LET acc == generatePathLoop(its, minLevel, 0,
                 [ segments |-> << >>, points |-> << >>,
                   itemLengths |-> << >>, length |-> 0,
                   prevX |-> 0, prevY |-> 0 ])
    IN  [ d |-> acc.segments, length |-> IF acc.itemLengths = << >> THEN 0
                      ELSE acc.itemLengths[Len(acc.itemLengths)],
          itemLengths |-> acc.itemLengths, points |-> acc.points ]

generatePath(its, minLevel) ==
    LET acc == generatePathLoop(its, minLevel, 0,
                 [ segments |-> << >>, points |-> << >>,
                   itemLengths |-> << >>, length |-> 0,
                   prevX |-> 0, prevY |-> 0 ])
    IN  [ d |-> acc.segments, length |-> acc.length,
          itemLengths |-> acc.itemLengths, points |-> acc.points ]

\* --------------------------------------------------- length to point
\* getPointScan measuring the fraction from the segment's end
RECURSIVE getPointScan_FromCurr(_, _, _)
getPointScan_FromCurr(points, targetLength, i) ==
    IF i < Len(points)
    THEN LET prev == points[i]
             curr == points[i + 1]
         IN  IF targetLength <= curr.length
             THEN LET segmentLength == curr.length - prev.length
                      t == IF segmentLength > 0
                           THEN Div(curr.length - targetLength, segmentLength)
                           ELSE 0
                  IN  [ x |-> prev.x + Mul(curr.x - prev.x, t),
                        y |-> prev.y + Mul(curr.y - prev.y, t) ]
             ELSE getPointScan_FromCurr(points, targetLength, i + 1)
    ELSE LET last == points[Len(points)]
         IN  [x |-> last.x, y |-> last.y]

RECURSIVE getPointScan(_, _, _)
getPointScan(points, targetLength, i) ==
    IF i < Len(points)
    THEN LET prev == points[i]
             curr == points[i + 1]
         IN  IF targetLength <= curr.length
             THEN LET segmentLength == curr.length - prev.length
                      t == IF segmentLength > 0
                           THEN Div(targetLength - prev.length, segmentLength)
                           ELSE 0
                  IN  [ x |-> prev.x + Mul(curr.x - prev.x, t),
                        y |-> prev.y + Mul(curr.y - prev.y, t) ]
             ELSE getPointScan(points, targetLength, i + 1)
    ELSE LET last == points[Len(points)]
         IN  [x |-> last.x, y |-> last.y]

getPointAtLength(points, targetLength) ==
    IF Len(points) = 0 THEN [x |-> 0, y |-> 0]
    ELSE IF targetLength <= 0 THEN [x |-> points[1].x, y |-> points[1].y]
    ELSE getPointScan(points, targetLength, 1)

\* ------------------------------------------- the pure functions, applied
Queries(pd) ==
    {0 - Fx(1), 0, pd.length, pd.length + Fx(1)}
    \cup { pd.points[k].length : k \in 1..Len(pd.points) }
    \cup { pd.points[k].length + Fx(3) : k \in 1..Len(pd.points) }

NoLayout == [innerHeight |-> 0, scrollHeight |-> 0, top |-> << >>,
             height |-> << >>, present |-> << >>]

NoPath == [d |-> << >>, length |-> 0, itemLengths |-> << >>, points |-> << >>]

InitGeom ==
    /\ items \in Trees
    /\ flatItems = << >>
    /\ pathData = NoPath
    /\ query = 0
    /\ point = [x |-> 0, y |-> 0]
    /\ pc = "items"
    /\ layout = NoLayout
    /\ scrollY = 0
    /\ scrollPending = FALSE
    /\ reported = << >>
    /\ activeId = << >>
    /\ currentLength = 0
    /\ isClickScrolling = FALSE
    /\ timers = << >>
    /\ lastOp = "none"
    /\ smoothLength = 0
    /\ dashOffset = 0
    /\ request = 0
    /\ ignored = FALSE
    /\ determined = FALSE
    /\ mounted = FALSE
    /\ observers = 0
    /\ listeners = 0

\* const flatItems = useMemo(() => flattenItems(items), [items])
Flatten ==
    /\ pc = "items"
    /\ flatItems' = flattenItems(items, 0)
    /\ pc' = "flat"
    /\ UNCHANGED <<items, pathData, query, point>>
    /\ UNCHANGED <<uvars, avars, tvars>>

\* useMemo(() => generatePath(flatItems, minLevel), [flatItems, minLevel])
GeneratePath ==
    /\ pc = "flat"
    /\ pathData' = generatePath(flatItems, minLevelOf(flatItems))
    /\ pc' = "path"
    /\ UNCHANGED <<items, flatItems, query, point>>
    /\ UNCHANGED <<uvars, avars, tvars>>

\* const point = getPointAtLength(points, length)
GetPoint ==
    /\ pc = "path"
    /\ \E q \in Queries(pathData) :
         /\ query' = q
         /\ point' = getPointAtLength(pathData.points, q)
    /\ pc' = "point"
    /\ UNCHANGED <<items, flatItems, pathData>>
    /\ UNCHANGED <<uvars, avars, tvars>>

NextGeom == Flatten \/ GeneratePath \/ GetPoint

SpecGeom == InitGeom /\ [][NextGeom]_vars


\* --------------------------------------- the document and the viewport
\* <section> elements in document order: top and height in px, and whether
\* the element with that id exists; the last section of each document is
\* too short to reach the activation band
Layouts ==
    { [innerHeight |-> 1000, scrollHeight |-> 1600,
       top |-> <<0, 450, 900>>, height |-> <<400, 400, 100>>,
       present |-> <<TRUE, TRUE, TRUE>>],
      [innerHeight |-> 500, scrollHeight |-> 1000,
       top |-> <<0, 450, 800>>, height |-> <<300, 300, 100>>,
       present |-> <<TRUE, TRUE, TRUE>>],
      [innerHeight |-> 500, scrollHeight |-> 1000,
       top |-> <<0, 450, 800>>, height |-> <<300, 300, 100>>,
       present |-> <<TRUE, FALSE, TRUE>>],
      NoLayout }

UiTrees ==
    { << [id |-> <<1>>, title |-> <<1>>],
         [id |-> <<2>>, title |-> <<2>>,
          children |-> << [id |-> <<2, 1>>, title |-> <<2, 1>>] >>] >>,
      << >> }

ScrollPositions ==
    { y \in 0..(layout.scrollHeight - layout.innerHeight) :
        y % ScrollStep = 0 }

RECURSIVE flattenIds(_)
flattenIds(its) ==
    IF its = << >> THEN << >>
    ELSE LET item == Head(its)
         IN  <<item.id>>
             \o (IF "children" \in DOMAIN item
                 THEN flattenIds(item.children) ELSE << >>)
             \o flattenIds(Tail(its))

sectionIds == flattenIds(items)

\* the observe loop passing every id to the observer, element or not
observed_All(k) == TRUE

\* const element = document.getElementById(id); if (element) observe
observed(k) == layout.present[k]

\* entry.boundingClientRect.top of the k-th section
rectTop(k) == layout.top[k] - scrollY

\* rootMargin "-10% 0px -80% 0px", threshold 0: the k-th section touches
\* the band left between the top 10% and the bottom 80% of the viewport
isIntersecting(k) ==
    LET rootTop == (layout.innerHeight * ROOT_MARGIN_TOP) \div 100
        rootBottom == layout.innerHeight
                      - (layout.innerHeight * ROOT_MARGIN_BOTTOM) \div 100
    IN  /\ rectTop(k) <= rootBottom
        /\ rectTop(k) + layout.height[k] >= rootTop

\* the sections whose intersection state differs from the last one the
\* observer reported: the entries of its next callback
intersectionState(k) == IF isIntersecting(k) THEN "in" ELSE "out"

entries ==
    { k \in 1..Len(sectionIds) :
        observed(k) /\ reported[k] # intersectionState(k) }

visibleEntries == { k \in entries : isIntersecting(k) }

\* sorted[0] of the entries sorted by boundingClientRect.top
sortedFirst(es) ==
    CHOOSE k \in es :
      \A j \in es : \/ rectTop(k) < rectTop(j)
                    \/ rectTop(k) = rectTop(j) /\ k <= j

scrolledToBottom ==
    layout.innerHeight + scrollY >= layout.scrollHeight - BOTTOM_THRESHOLD

\* the callback without the return at the end of the document
observedActiveId_NoBottomReturn ==
    IF visibleEntries # {}
    THEN sectionIds[sortedFirst(visibleEntries)]
    ELSE activeId

\* the callback falling back to the first section when none is visible
observedActiveId_ResetWhenNone ==
    IF scrolledToBottom THEN activeId
    ELSE IF visibleEntries # {}
    THEN sectionIds[sortedFirst(visibleEntries)]
    ELSE sectionIds[1]

\* the callback clearing the active id when none is visible
observedActiveId_ClearWhenNone ==
    IF scrolledToBottom THEN activeId
    ELSE IF visibleEntries # {}
    THEN sectionIds[sortedFirst(visibleEntries)]
    ELSE << >>

\* the active id after the observer's callback: the topmost of the
\* intersecting entries, unless scrolled to the bottom or none intersects
observedActiveId ==
    IF scrolledToBottom THEN activeId
    ELSE IF visibleEntries # {}
    THEN sectionIds[sortedFirst(visibleEntries)]
    ELSE activeId

\* the cleanup forgetting window.removeEventListener
listenersAfterCleanup_Leak == listeners

\* return () => { observer.disconnect();
\*                window.removeEventListener("scroll", handleScroll) }
listenersAfterCleanup == listeners - 1

observersAfterCleanup == observers - 1

\* ------------------------------------------------ the animator's inputs
\* flatItems.findIndex((item) => item.id === id)
findIndex(flat, id) ==
    IF \E k \in 1..Len(flat) : flat[k].id = id
    THEN Min({ k \in 1..Len(flat) : flat[k].id = id }) - 1
    ELSE 0 - 1

\* activeIndex without the idx !== -1 test
activeIndexOf_LeaksMinusOne(id) ==
    IF id = << >> THEN 0 ELSE findIndex(flatItems, id)

activeIndexOf(id) ==
    IF id = << >> THEN 0
    ELSE LET idx == findIndex(flatItems, id)
         IN  IF idx # 0 - 1 THEN idx ELSE 0

\* the anchor length defaulting to the inset instead of 0
itemLengthOr0_PaddingDefault(index) ==
    IF index + 1 \in DOMAIN pathData.itemLengths
    THEN pathData.itemLengths[index + 1]
    ELSE Fx(PADDING)

\* itemLengths[index] ?? 0
itemLengthOr0(index) ==
    IF index + 1 \in DOMAIN pathData.itemLengths
    THEN pathData.itemLengths[index + 1]
    ELSE 0

\* the effect reading the index of the previous render
activeIndexEffect_StaleIndex(newId) ==
    IF activeIndexOf(newId) = activeIndexOf(activeId) THEN currentLength
    ELSE IF isClickScrolling THEN currentLength
    ELSE itemLengthOr0(activeIndexOf(activeId))

\* the value of currentLength once the active id is newId: the effect runs
\* when activeIndex changed and returns early while isClickScrolling
activeIndexEffect(newId) ==
    IF activeIndexOf(newId) = activeIndexOf(activeId) THEN currentLength
    ELSE IF isClickScrolling THEN currentLength
    ELSE itemLengthOr0(activeIndexOf(newId))

\* the row of the latest request that was not suppressed, once the
\* tracker has changed the active id to newId
requestAfter(newId) ==
    IF newId # activeId /\ ~isClickScrolling
    THEN activeIndexOf(newId)
    ELSE request

\* whether the effect returned early on the latest change of activeIndex
ignoredAfter(newId) ==
    IF activeIndexOf(newId) # activeIndexOf(activeId) THEN isClickScrolling
    ELSE ignored

\* the transform with its operands exchanged
dashOffsetOf_Reversed(length) == length - pathData.length

\* useTransform(smoothLength, (length) => pathLength - length)
dashOffsetOf(length) == pathData.length - length

\* useSpring(currentLength, { bounce: 0 }): one animation frame moves the
\* drawn length towards the target, by SpringStep px at most and never
\* past the target
springValue ==
    IF smoothLength < currentLength
    THEN (IF currentLength - smoothLength <= Fx(SpringStep)
          THEN currentLength ELSE smoothLength + Fx(SpringStep))
    ELSE (IF smoothLength - currentLength <= Fx(SpringStep)
          THEN currentLength ELSE smoothLength - Fx(SpringStep))

\* the dot placed by interpolation at the initial drawn length
initialDot_Interpolated ==
    getPointAtLength(pathData.points, itemLengthOr0(0))

\* useMotionValue(points[0]?.x ?? 1), useMotionValue(points[0]?.y ?? PADDING)
initialDot ==
    IF pathData.points = << >>
    THEN [x |-> Fx(1), y |-> Fx(PADDING)]
    ELSE [x |-> pathData.points[1].x, y |-> pathData.points[1].y]

\* the ids the parent may pass as activeId: the items' ids, none, and an id
\* that no item has
ActiveIdProps ==
    { flatItems[k].id : k \in 1..Len(flatItems) } \cup { << >>, <<9>> }

\* ----------------------------------------------------------- the widget
\* what the first render of AnimatedToc leaves, for the active id it got
InitAnimator ==
    /\ flatItems = flattenItems(items, 0)
    /\ pathData = generatePath(flatItems, minLevelOf(flatItems))
    /\ pc = "mounted"
    /\ query = 0
    /\ point = initialDot
    /\ currentLength = itemLengthOr0(activeIndexOf(activeId))
    /\ smoothLength = itemLengthOr0(0)
    /\ dashOffset = dashOffsetOf(itemLengthOr0(0))
    /\ request = activeIndexOf(activeId)
    /\ ignored = FALSE
    /\ isClickScrolling = FALSE
    /\ timers = << >>
    /\ lastOp = "mount"

\* The state once the components are mounted: the first render, the
\* activeIndex effect and the tracker's effect with its handleScroll() call
\* have run; the observer has not reported yet.  A setActiveId call, the
\* render it causes and the activeIndex effect of that render are one step.
Init ==
    /\ items \in UiTrees
    /\ layout \in Layouts
    /\ Len(layout.top) = Len(sectionIds)
    /\ scrollY \in ScrollPositions
    /\ scrollPending = FALSE
    /\ reported = [k \in 1..Len(sectionIds) |-> "none"]
    /\ activeId = IF sectionIds = << >> THEN << >>
                  ELSE IF scrolledToBottom THEN sectionIds[Len(sectionIds)]
                  ELSE sectionIds[1]
    /\ determined = (sectionIds # << >> /\ scrolledToBottom)
    /\ mounted = TRUE
    /\ observers = IF sectionIds = << >> THEN 0 ELSE 1
    /\ listeners = IF sectionIds = << >> THEN 0 ELSE 1
    /\ InitAnimator

\* the document is scrolled; a scroll event is queued for the listener
ScrollTo ==
    /\ sectionIds # << >>
    /\ \E y \in ScrollPositions \ {scrollY} : scrollY' = y
    /\ scrollPending' = (listeners > 0)
    /\ lastOp' = "scroll"
    /\ UNCHANGED <<reported, activeId, currentLength, isClickScrolling,
                   timers, layout>>
    /\ UNCHANGED <<gvars, avars, tvars>>

handleScroll ==
    /\ scrollPending
    /\ listeners > 0
    /\ scrollPending' = FALSE
    /\ IF scrolledToBottom
       THEN /\ activeId' = sectionIds[Len(sectionIds)]
            /\ currentLength' = activeIndexEffect(sectionIds[Len(sectionIds)])
            /\ request' = requestAfter(sectionIds[Len(sectionIds)])
            /\ ignored' = ignoredAfter(sectionIds[Len(sectionIds)])
            /\ determined' = TRUE
       ELSE UNCHANGED <<activeId, currentLength, request, ignored,
                        determined>>
    /\ lastOp' = "handleScroll"
    /\ UNCHANGED <<scrollY, reported, isClickScrolling, timers, layout>>
    /\ UNCHANGED <<gvars, smoothLength, dashOffset, mounted, observers,
                   listeners>>

\* the IntersectionObserver callback, with the entries that changed
observerCallback ==
    /\ observers > 0
    /\ entries # {}
    /\ reported' = [k \in 1..Len(sectionIds) |->
                      IF observed(k) THEN intersectionState(k)
                      ELSE reported[k]]
    /\ activeId' = observedActiveId
    /\ currentLength' = activeIndexEffect(observedActiveId)
    /\ request' = requestAfter(observedActiveId)
    /\ ignored' = ignoredAfter(observedActiveId)
    /\ determined' = (determined
                      \/ (~scrolledToBottom /\ visibleEntries # {}))
    /\ lastOp' = IF scrolledToBottom THEN "observe:bottom"
                 ELSE IF visibleEntries # {} THEN "observe:select"
                 ELSE "observe:none"
    /\ UNCHANGED <<scrollY, scrollPending, isClickScrolling, timers, layout>>
    /\ UNCHANGED <<gvars, smoothLength, dashOffset, mounted, observers,
                   listeners>>

\* the effect's cleanup, when the component is removed
unmount ==
    /\ mounted
    /\ sectionIds # << >>
    /\ mounted' = FALSE
    /\ observers' = observersAfterCleanup
    /\ listeners' = listenersAfterCleanup
    /\ scrollPending' = (scrollPending /\ listenersAfterCleanup > 0)
    /\ lastOp' = "unmount"
    /\ UNCHANGED <<scrollY, reported, activeId, currentLength,
                   isClickScrolling, timers, layout, determined>>
    /\ UNCHANGED <<gvars, avars>>

\* the effect run again for a new sectionIds array: cleanup, then a new
\* observer, the listener and the handleScroll() call
rerunEffect ==
    /\ mounted
    /\ sectionIds # << >>
    /\ observers' = observersAfterCleanup + 1
    /\ listeners' = listenersAfterCleanup + 1
    /\ reported' = [k \in 1..Len(sectionIds) |-> "none"]
    /\ IF scrolledToBottom
       THEN /\ activeId' = sectionIds[Len(sectionIds)]
            /\ currentLength' = activeIndexEffect(sectionIds[Len(sectionIds)])
            /\ request' = requestAfter(sectionIds[Len(sectionIds)])
            /\ ignored' = ignoredAfter(sectionIds[Len(sectionIds)])
            /\ determined' = TRUE
       ELSE UNCHANGED <<activeId, currentLength, request, ignored,
                        determined>>
    /\ lastOp' = "rerun"
    /\ UNCHANGED <<scrollY, scrollPending, isClickScrolling, timers, layout,
                   mounted>>
    /\ UNCHANGED <<gvars, smoothLength, dashOffset>>

\* a click that leaves the target alone while an earlier click is pending
clickTarget_KeepWhilePending(index) ==
    IF isClickScrolling THEN currentLength ELSE itemLengthOr0(index)

\* currentLength.set(itemLengths[index] ?? 0)
clickTarget(index) == itemLengthOr0(index)

\* the click handler making the clicked row the active one
handleClick_SetsActive ==
    /\ mounted
    /\ Len(timers) < MaxTimers
    /\ \E index \in 0..(Len(flatItems) - 1) :
         /\ currentLength' = clickTarget(index)
         /\ activeId' = flatItems[index + 1].id
         /\ request' = index
    /\ ignored' = FALSE
    /\ isClickScrolling' = TRUE
    /\ timers' = Append(timers, COOLDOWN_MS)
    /\ lastOp' = "click"
    /\ UNCHANGED <<scrollY, scrollPending, reported, layout>>
    /\ UNCHANGED <<gvars, smoothLength, dashOffset, tvars>>

\* the click handler writing the drawn length as well as the target
handleClick_JumpsDrawn ==
    /\ mounted
    /\ Len(timers) < MaxTimers
    /\ \E index \in 0..(Len(flatItems) - 1) :
         /\ currentLength' = clickTarget(index)
         /\ smoothLength' = itemLengthOr0(index)
         /\ request' = index
    /\ ignored' = FALSE
    /\ isClickScrolling' = TRUE
    /\ timers' = Append(timers, COOLDOWN_MS)
    /\ lastOp' = "click"
    /\ UNCHANGED <<scrollY, scrollPending, reported, activeId, layout>>
    /\ UNCHANGED <<gvars, dashOffset, tvars>>

handleClick ==
    /\ mounted
    /\ Len(timers) < MaxTimers
    /\ \E index \in 0..(Len(flatItems) - 1) :
         /\ currentLength' = clickTarget(index)
         /\ request' = index
    /\ ignored' = FALSE
    /\ isClickScrolling' = TRUE
    /\ timers' = Append(timers, COOLDOWN_MS)
    /\ lastOp' = "click"
    /\ UNCHANGED <<scrollY, scrollPending, reported, activeId, layout>>
    /\ UNCHANGED <<gvars, smoothLength, dashOffset, tvars>>

\* time passes, up to the moment the earliest pending timeout is due
Tick ==
    /\ timers # << >>
    /\ timers[1] > 0
    /\ LET dt == IF TickMs < timers[1] THEN TickMs ELSE timers[1]
       IN  timers' = [k \in 1..Len(timers) |-> timers[k] - dt]
    /\ lastOp' = "tick"
    /\ UNCHANGED <<scrollY, scrollPending, reported, activeId, currentLength,
                   isClickScrolling, layout>>
    /\ UNCHANGED <<gvars, avars, tvars>>

\* setTimeout(() => { isClickScrolling.current = false }, 1000)
clickTimeout ==
    /\ timers # << >>
    /\ timers[1] = 0
    /\ isClickScrolling' = FALSE
    /\ timers' = Tail(timers)
    /\ lastOp' = "timeout"
    /\ UNCHANGED <<scrollY, scrollPending, reported, activeId, currentLength,
                   layout>>
    /\ UNCHANGED <<gvars, avars, tvars>>

Next ==
    \/ ScrollTo
    \/ handleScroll
    \/ observerCallback
    \/ handleClick
    \/ Tick
    \/ clickTimeout

Spec == Init /\ [][Next]_vars

\* ------------------------------------------ the tracker's life cycle
\* useActiveSection on its own: scrolling, the observer, and the effect's
\* cleanup on unmount or on a new sectionIds array
NextLife ==
    \/ ScrollTo
    \/ handleScroll
    \/ observerCallback
    \/ unmount
    \/ rerunEffect

SpecLife == Init /\ [][NextLife]_vars

\* ------------------------------------------- the animator on its own
\* AnimatedToc mounted with an activeId prop of the parent's choosing
InitAnim ==
    /\ items \in UiTrees
    /\ layout = NoLayout
    /\ scrollY = 0
    /\ scrollPending = FALSE
    /\ reported = << >>
    /\ determined = FALSE
    /\ mounted = TRUE
    /\ observers = 0
    /\ listeners = 0
    /\ activeId \in { << >>, <<9>> }
                   \cup { sectionIds[k] : k \in 1..Len(sectionIds) }
    /\ InitAnimator

\* the parent renders the component with another activeId
activeIdChange ==
    /\ \E id \in ActiveIdProps \ {activeId} :
         /\ activeId' = id
         /\ currentLength' = activeIndexEffect(id)
         /\ request' = requestAfter(id)
         /\ ignored' = ignoredAfter(id)
    /\ lastOp' = "activeId"
    /\ UNCHANGED <<scrollY, scrollPending, reported, isClickScrolling,
                   timers, layout>>
    /\ UNCHANGED <<gvars, smoothLength, dashOffset, tvars>>

\* one animation frame of the spring, with its change subscribers
springStep ==
    /\ smoothLength # currentLength
    /\ smoothLength' = springValue
    /\ dashOffset' = dashOffsetOf(springValue)
    /\ query' = springValue
    /\ point' = getPointAtLength(pathData.points, springValue)
    /\ lastOp' = "spring"
    /\ UNCHANGED <<scrollY, scrollPending, reported, activeId, currentLength,
                   isClickScrolling, timers, layout>>
    /\ UNCHANGED <<items, flatItems, pathData, pc, request, ignored, tvars>>

NextAnim ==
    \/ activeIdChange
    \/ handleClick
    \/ Tick
    \/ clickTimeout
    \/ springStep

SpecAnim == InitAnim /\ [][NextAnim]_vars

\* ========================================================= claims C1 - C5
\* a click's 1000 ms window is open: its timeout is pending and not yet due
InCooldown == \E k \in 1..Len(timers) : timers[k] > 0

\* the anchor arc length of the item with this id
AnchorOf(id) ==
    pathData.itemLengths[CHOOSE k \in 1..Len(flatItems) :
                           flatItems[k].id = id]

\* C1 as stated: a change of the active id made by the tracker while the
\* cooldown window of some click is open leaves the animation target
\* unchanged, also when clicks overlap.
C1_AsStated ==
    [][(InCooldown /\ activeId' # activeId) =>
         currentLength' = currentLength]_vars

\* C2: a change of the active id made by the tracker while no click
\* timeout is pending sets the animation target to the anchor arc length
\* of the newly active item.
C2_TrackerSetsTarget ==
    [][(timers = << >> /\ activeId' # activeId) =>
         currentLength' = AnchorOf(activeId')]_vars

C2_Witness ==
    /\ lastOp = "observe:select"
    /\ timers = << >>
    /\ ~isClickScrolling
    /\ activeId = sectionIds[2]
    /\ currentLength = pathData.itemLengths[2]
    /\ currentLength # pathData.itemLengths[1]

\* C3 as stated: after a callback that selects a section, the active id is
\* the topmost of all the sections intersecting the band at that moment.
C3_AsStated ==
    lastOp = "observe:select" =>
      activeId = sectionIds[sortedFirst({ k \in 1..Len(sectionIds) :
                                            observed(k)
                                            /\ isIntersecting(k) })]

C5_NoneVisibleRetains ==
    [][(reported' # reported /\ visibleEntries = {} /\ ~scrolledToBottom) =>
         activeId' = activeId]_vars

C5_Witness ==
    /\ lastOp = "observe:none"
    /\ ~scrolledToBottom
    /\ \A k \in 1..Len(sectionIds) : ~isIntersecting(k)
    /\ activeId = sectionIds[2]


\* ======================================================== claims C6 - C10
\* the ids of all the nodes of a forest, whatever their order
RECURSIVE NodeIds(_)
NodeIds(its) ==
    UNION { {its[i].id} \cup (IF "children" \in DOMAIN its[i]
                              THEN NodeIds(its[i].children) ELSE {}) :
            i \in 1..Len(its) }

\* document order of two Dewey paths: an ancestor comes before its
\* descendants, an earlier sibling's subtree before a later sibling
PathBefore(p, q) ==
    \/ Len(p) < Len(q) /\ \A k \in 1..Len(p) : p[k] = q[k]
    \/ \E k \in 1..Len(p) :
         /\ k <= Len(q)
         /\ p[k] < q[k]
         /\ \A j \in 1..(k - 1) : p[j] = q[j]

ExampleTree ==
    << [id |-> <<1>>, title |-> <<1>>],
       [id |-> <<2>>, title |-> <<2>>,
        children |-> << [id |-> <<2, 1>>, title |-> <<2, 1>>] >>] >>

ExampleFlat ==
    << [id |-> <<1>>, title |-> <<1>>, level |-> 0],
       [id |-> <<2>>, title |-> <<2>>, level |-> 0],
       [id |-> <<2, 1>>, title |-> <<2, 1>>, level |-> 1] >>

\* C6: flattenItems returns every node of the tree exactly once, in
\* pre-order (document order of the node positions), roots at depth 0 and
\* every child one deeper than its parent; [a, b[c]] gives
\* [(a,0),(b,0),(c,1)] and the empty list gives the empty list.
C6_FlattenPreOrder ==
    pc # "items" =>
      /\ Len(flatItems) = Cardinality(NodeIds(items))
      /\ { flatItems[i].id : i \in 1..Len(flatItems) } = NodeIds(items)
      /\ \A i, j \in 1..Len(flatItems) :
           i < j => PathBefore(flatItems[i].id, flatItems[j].id)
      /\ \A i \in 1..Len(flatItems) :
           /\ flatItems[i].level = Len(flatItems[i].id) - 1
           /\ flatItems[i].title = flatItems[i].id
      /\ (items = ExampleTree => flatItems = ExampleFlat)
      /\ (items = << >> => flatItems = << >>)

C6_Witness ==
    /\ pc = "flat"
    /\ Len(flatItems) >= 4
    /\ \E i \in 1..(Len(flatItems) - 1) :
         /\ flatItems[i].level = 2
         /\ flatItems[i + 1].level = 0

\* the geometry of the 0-based row i, as the claims state it
RowX(i) == Fx(1 + INDENT_STEP * (flatItems[i + 1].level
                                 - minLevelOf(flatItems)))
RowTop(i) == Fx(ITEM_HEIGHT * i + PADDING)
RowBottom(i) == Fx(ITEM_HEIGHT * (i + 1) - PADDING)
RowCenter(i) == (RowTop(i) + RowBottom(i)) \div 2

\* s is the Euclidean length of (dx, dy), to the resolution of the numbers
IsEuclidean(s, dx, dy) ==
    /\ s >= 0
    /\ s * s <= dx * dx + dy * dy
    /\ dx * dx + dy * dy < (s + 1) * (s + 1)

\* C7: item i has the sample points (x_i, top_i), (x_i, center_i),
\* (x_i, bottom_i); there are exactly n-1 inter-item segments, each from
\* the previous bottom point to this top point and adding its Euclidean
\* length to the running total; the anchor length of item i is the running
\* length at top_i plus (center_i - top_i); one item alone has no
\* inter-item segment and total length bottom_0 - top_0.
C7_SamplePoints ==
    (pc \in {"path", "point"} /\ Len(flatItems) >= 1) =>
      LET n == Len(flatItems)
          pts == pathData.points
      IN  /\ Len(pts) = 3 * n
          /\ Len(pathData.itemLengths) = n
          /\ Len(pathData.d) = 2 * n
          /\ pathData.d[1] = <<"M", RowX(0), RowTop(0)>>
          /\ pts[1].length = 0
          /\ \A i \in 0..(n - 1) :
               /\ pts[3 * i + 1].x = RowX(i) /\ pts[3 * i + 1].y = RowTop(i)
               /\ pts[3 * i + 2].x = RowX(i)
               /\ pts[3 * i + 2].y = RowCenter(i)
               /\ pts[3 * i + 3].x = RowX(i)
               /\ pts[3 * i + 3].y = RowBottom(i)
               /\ pts[3 * i + 3].length - pts[3 * i + 1].length
                    = RowBottom(i) - RowTop(i)
               /\ pathData.itemLengths[i + 1]
                    = pts[3 * i + 1].length + (RowCenter(i) - RowTop(i))
               /\ pts[3 * i + 2].length = pathData.itemLengths[i + 1]
               /\ pathData.d[2 * i + 2] = <<"L", RowX(i), RowBottom(i)>>
          /\ \A i \in 1..(n - 1) :
               /\ pathData.d[2 * i + 1] = <<"L", RowX(i), RowTop(i)>>
               /\ IsEuclidean(pts[3 * i + 1].length - pts[3 * i].length,
                              RowX(i) - RowX(i - 1),
                              RowTop(i) - RowBottom(i - 1))
          /\ (n = 1 => pathData.length = RowBottom(0) - RowTop(0))

C7_Witness ==
    /\ pc = "path"
    /\ Len(flatItems) >= 4
    /\ \E i \in 1..(Len(flatItems) - 1) :
         /\ flatItems[i].level = 2
         /\ flatItems[i + 1].level = 0
         /\ pathData.points[3 * i + 1].length
              - pathData.points[3 * i].length > Fx(28)

\* C8: the sample lengths never decrease along the table and the total
\* length is the length of the last sample.
C8_Monotone ==
    (pc \in {"path", "point"} /\ Len(flatItems) >= 1) =>
      /\ \A k \in 1..(Len(pathData.points) - 1) :
           pathData.points[k].length <= pathData.points[k + 1].length
      /\ pathData.length = pathData.points[Len(pathData.points)].length

C8_Witness ==
    /\ pc = "path"
    /\ Len(pathData.points) = 3 * MaxNodes
    /\ pathData.length > Fx(ITEM_HEIGHT * MaxNodes - 2 * PADDING)

\* C9: interpolation returns the first sample for a query <= 0, the last
\* sample for a query >= total length, and item i's centre point for a
\* query at item i's anchor length.
C9_Interpolation ==
    (pc = "point" /\ Len(flatItems) >= 1) =>
      LET pts == pathData.points
      IN  /\ query <= 0 => point = [x |-> pts[1].x, y |-> pts[1].y]
          /\ query >= pathData.length =>
               point = [x |-> pts[Len(pts)].x, y |-> pts[Len(pts)].y]
          /\ \A i \in 0..(Len(flatItems) - 1) :
               query = pathData.itemLengths[i + 1] =>
                 point = [x |-> RowX(i), y |-> RowCenter(i)]

C9_Witness ==
    /\ pc = "point"
    /\ Len(flatItems) >= 3
    /\ flatItems[3].level = 1
    /\ query = pathData.itemLengths[3]
    /\ point = [x |-> Fx(1 + INDENT_STEP), y |-> Fx(2 * ITEM_HEIGHT + 16)]

SingleDepth5 ==
    /\ Len(flatItems) = 5
    /\ \A i \in 1..5 : flatItems[i].level = 0

\* C10 as stated: in the 5-item single-depth list item 0's anchor is 8,
\* each of the 4 inter-item segments is 32 long, and item 4 is reached at
\* 4 * 32 + 4 * 16 + 8.
C10_AsStated ==
    (pc = "path" /\ SingleDepth5) =>
      /\ pathData.itemLengths[1] = Fx(8)
      /\ \A i \in 1..4 :
           pathData.points[3 * i + 1].length - pathData.points[3 * i].length
             = Fx(32)
      /\ pathData.itemLengths[5] = Fx(4 * 32 + 4 * 16 + 8)

\* C10 amended: in the 5-item single-depth list item 0's anchor is 8, each
\* of the 4 inter-item segments is 16 long (twice the inset: from
\* bottom = 32 i - 8 to top = 32 i + 8), item 4's top is reached at
\* 4 * 16 + 4 * 16 = 128 and its anchor at 128 + 8 = 136.
C10_ClosedForm ==
    (pc = "path" /\ SingleDepth5) =>
      /\ pathData.itemLengths[1] = Fx(8)
      /\ \A i \in 1..4 :
           pathData.points[3 * i + 1].length - pathData.points[3 * i].length
             = Fx(16)
      /\ pathData.points[13].length = Fx(4 * 16 + 4 * 16)
      /\ pathData.itemLengths[5] = Fx(4 * 16 + 4 * 16 + 8)
      /\ pathData.length = Fx(5 * 16 + 4 * 16)

C10_Witness ==
    /\ pc = "path"
    /\ SingleDepth5
    /\ Len(pathData.itemLengths) = 5

\* ======================================================= claims C11 - C20
\* C11: the animation target always equals the anchor arc length of the
\* most recently accepted request, a click on a row or a change of the
\* active id by the tracker while the cooldown flag is not set; a click
\* sets it at once, and a later request overwrites an earlier one.
C11_TargetIsLatestRequest ==
    /\ currentLength = itemLengthOr0(request)
    /\ lastOp = "click" => currentLength = AnchorOf(flatItems[request + 1].id)

\* a second click, on a row other than the active one, made while the first
\* click's timeout is pending
C11_Witness ==
    /\ lastOp = "click"
    /\ Len(timers) = 2
    /\ request # activeIndexOf(activeId)
    /\ currentLength # itemLengthOr0(activeIndexOf(activeId))
    /\ currentLength = itemLengthOr0(request)

\* C12: at every animation frame the stroke dash-offset is the total length
\* minus the drawn length, and the drawn length stays within
\* [0, total length], so the dash-offset stays within [0, total length].
C12_DashOffset ==
    /\ dashOffset = pathData.length - smoothLength
    /\ 0 <= smoothLength /\ smoothLength <= pathData.length
    /\ 0 <= dashOffset /\ dashOffset <= pathData.length

\* a frame in the middle of an animation: the drawn length lies strictly
\* between two anchors and has not reached the target
C12_Witness ==
    /\ lastOp = "spring"
    /\ smoothLength # currentLength
    /\ \A k \in DOMAIN pathData.itemLengths :
         smoothLength # pathData.itemLengths[k]
    /\ dashOffset > 0

\* the ids of the flattened items
KnownIds == { flatItems[k].id : k \in 1..Len(flatItems) }

C14_EmptyList ==
    items = << >> =>
      /\ flatItems = << >>
      /\ generatePath(flatItems, minLevelOf(flatItems)) = NoPath
      /\ pathData = NoPath
      /\ activeIndexOf(activeId) = 0
      /\ currentLength = 0
      /\ smoothLength = 0
      /\ dashOffset = 0
      /\ point = [x |-> Fx(1), y |-> Fx(PADDING)]
      /\ \A q \in Queries(pathData) \cup {Fx(ITEM_HEIGHT)} :
           getPointAtLength(pathData.points, q) = [x |-> 0, y |-> 0]

\* the empty list, after the parent has changed the active id
C14_Witness ==
    /\ items = << >>
    /\ lastOp = "activeId"
    /\ activeId = <<9>>

\* C15: for a non-empty list of section ids the tracker's active id is, in
\* every reachable state, one of the section ids, and it is the first of
\* them until an observer callback has selected a section or the
\* end-of-document override has applied.
C15_OneKnownActiveId ==
    sectionIds # << >> =>
      /\ \E k \in 1..Len(sectionIds) : activeId = sectionIds[k]
      /\ ~determined => activeId = sectionIds[1]

\* an observer callback has run, away from the end of the document, without
\* an intersecting entry: nothing is determined yet
C15_Witness ==
    /\ sectionIds # << >>
    /\ lastOp = "observe:none"
    /\ ~determined
    /\ scrollY > 0
    /\ activeId = sectionIds[1]

\* C16: a change of the active id and a click on a row leave the drawn
\* length, and the dash-offset and marker position derived from it, as they
\* are; the drawn length changes in the spring's animation frames only.
C16_OnlySpringDraws ==
    /\ [][lastOp' \in {"activeId", "click"} =>
            /\ smoothLength' = smoothLength
            /\ dashOffset' = dashOffset
            /\ point' = point]_vars
    /\ [][smoothLength' # smoothLength => lastOp' = "spring"]_vars

\* a click has moved the target away from the drawn length
C16_Witness ==
    /\ lastOp = "click"
    /\ currentLength = itemLengthOr0(request)
    /\ smoothLength # currentLength
    /\ dashOffset = dashOffsetOf(smoothLength)

\* C17: the effect's cleanup, on unmount or before the effect runs again,
\* disconnects the observer and removes the scroll listener: at most one
\* observer and one listener are live, none after unmount, and no step
\* after unmount changes the active id.
C17_Teardown ==
    /\ [](/\ observers \in {0, 1}
           /\ listeners \in {0, 1}
           /\ ~mounted => (observers = 0 /\ listeners = 0 /\ ~scrollPending))
    /\ [][~mounted => activeId' = activeId]_vars

\* after unmount the document was scrolled to its end, where a live
\* listener would have selected the last section
C17_Witness ==
    /\ ~mounted
    /\ lastOp = "scroll"
    /\ scrolledToBottom
    /\ activeId # sectionIds[Len(sectionIds)]
    /\ \E k \in 1..Len(sectionIds) : reported[k] # "none"

\* C18: a section id whose element is missing from the document is never
\* observed, so the observer reports nothing for it and a callback never
\* selects it; the sections that exist are tracked as before.
C18_MissingAnchorSkipped ==
    \A k \in 1..Len(sectionIds) :
      ~layout.present[k] =>
        /\ reported[k] = "none"
        /\ k \notin entries
        /\ lastOp = "observe:select" => activeId # sectionIds[k]

\* the place of the missing element is in the activation band, and the
\* observer has just reported the first section leaving it
C18_Witness ==
    /\ \E k \in 1..Len(sectionIds) : ~layout.present[k] /\ isIntersecting(k)
    /\ lastOp = "observe:none"
    /\ reported[1] = "out"
    /\ activeId = sectionIds[1]

\* C19 as stated: in every state of the animator with a non-empty list,
\* the initial one included, the marker position is the interpolation of
\* the sample points at the current drawn length.
C19_AsStated ==
    items # << >> => point = getPointAtLength(pathData.points, smoothLength)

\* C20 as stated: when the tracker's latest change of the active item fell
\* into a click's cooldown and was passed over, then once no timeout is
\* pending and the flag is cleared the animation target is the anchor arc
\* length of the active item.
C20_AsStated ==
    (ignored /\ timers = << >> /\ ~isClickScrolling) =>
      currentLength = itemLengthOr0(activeIndexOf(activeId))

\* ============================================================ claim C21
\* C21: a click on a row sets the animation target to that row's anchor
\* and sets the cooldown flag (starting its timeout); the active id held by
\* the tracker, the active index derived from it, what the observer has
\* reported, the scroll position and the items are left as they are.
C21_ClickKeepsActive ==
    [][lastOp' = "click" =>
         /\ activeId' = activeId
         /\ activeIndexOf(activeId)' = activeIndexOf(activeId)
         /\ isClickScrolling'
         /\ currentLength' = itemLengthOr0(request')
         /\ Len(timers') = Len(timers) + 1
         /\ UNCHANGED <<scrollY, scrollPending, reported, layout,
                        items, flatItems, pathData>>]_vars

\* a click on the first row while a later section is the active one: the
\* target is the first row's anchor, the highlighted row is the later one
C21_Witness ==
    /\ lastOp = "click"
    /\ request = 0
    /\ activeIndexOf(activeId) > 0
    /\ isClickScrolling
    /\ currentLength = pathData.itemLengths[1]
    /\ currentLength # itemLengthOr0(activeIndexOf(activeId))

====
